---- MODULE Spec2Model ----
(***************************************************************************)
(* Lifecycle orchestrator of ego (ego_function.go): the signal handler     *)
(* installed by waitSignals, the ordered startup sequencer                 *)
(* startOrderServers with the job runner startJobs, and the reload         *)
(* hand-off forkChild.  Each unit is a state machine over its own          *)
(* variables and has its own specification; the variables of the other     *)
(* units stay at their initial values.                                     *)
(***************************************************************************)
EXTENDS Integers, Sequences, FiniteSets, TLC

(***************************************************************************)
(* Bounds of the model.                                                    *)
(***************************************************************************)
\* signals the operating system sends to the process in one run
MaxSignals == 3
\* ticks of the wall clock
MaxClock == 3
\* e.opts.stopTimeout, in ticks
StopTimeout == 2
\* length of e.orderServers
MaxOrder == 2
\* length of e.jobs
MaxJobs == 2
\* health probes the retry policy allows for one ordered server
MaxAttempts == 2
\* arguments after the program path in os.Args
MaxArgs == 2
\* length of e.reloadServers
MaxListeners == 2
\* length of a list of cleanup hooks
MaxHooks == 4

(***************************************************************************)
(* Signals.  shutdownSignals is e.opts.shutdownSignals (ego's default      *)
(* set); ReloadSignal is the package's reload signal.                      *)
(***************************************************************************)
SIGINT == 2
SIGQUIT == 3
SIGTERM == 15
ReloadSignal == 1
shutdownSignals == {SIGQUIT, SIGINT, SIGTERM}
\* the signals signal.Notify relays to the channel
NotifySet == shutdownSignals \cup {ReloadSignal}
\* capacity of the channel: make(chan os.Signal, 2)
SigChanCap == 2

NoSignal == 0
NoStopInfo == [set |-> FALSE, stopStartTime |-> 0, isGracefulStop |-> FALSE, isReload |-> FALSE]
NoCtx == [created |-> FALSE, deadline |-> 0, err |-> "nil"]

VARIABLES
    \* ---- waitSignals
    sigq,          \* the buffered channel sig
    notifying,     \* signal.Notify(sig, ...) is in force
    sent,          \* signals the OS has sent so far
    pcH,           \* the outer goroutine of waitSignals
    pcS,           \* the inner goroutine (the shutdown)
    s,             \* the first signal received
    received,      \* the signals the outer goroutine has taken from the channel
    grace,         \* local grace
    reload,        \* local reload
    stopInfo,      \* e.stopInfo
    stopInfoWrites,\* assignments to e.stopInfo so far
    stopCalls,     \* the arguments of every call of e.Stop
    stopCtx,       \* the deadline scope
    stopInTime,    \* e.Stop returned before the deadline scope closed
    timeoutLogged, \* "waitSignals stop context err" was logged
    exited,        \* os.Exit was called
    exitCode,      \* its status
    clock,         \* wall clock
    \* ---- startOrderServers, startJobs
    entry,         \* the function the run calls: "startOrderServers", "startJobs",
                   \* "startServers" or "startReloadServers"
    nSrv,          \* len(e.servers) for startServers, len(e.reloadServers) for
                   \* startReloadServers
    nOrd,          \* len(e.orderServers)
    nJobs,         \* len(e.jobs)
    pcM,           \* the calling goroutine
    idx,           \* position of the range loop over e.orderServers
    attempts,      \* probes the retry loop has allowed for the current server
    isHealth,      \* local isHealth
    prepRes,       \* per ordered server: the result of Prepare ("none" before the call)
    initRes,       \* per ordered server: the result of Init
    initOrder,     \* the ordered servers in the order their Init was invoked
    polled,        \* per ordered server: Health was called
    healthyOnce,   \* per ordered server: Health has returned true
    opc,           \* per ordered server: its run unit in the supervisor group
    regRes,        \* per ordered server: the result of RegisterService
    startRes,      \* per ordered server: the result of Start
    ulog,          \* per server: the calls its run unit has made, in order
    jgo,           \* position of the eg.Go loop
    jpc,           \* per job: its goroutine in the errgroup
    jres,          \* per job: the result of Start
    egErr,         \* the errgroup's error slot
    failOrder,     \* the jobs whose Start returned an error, in the order they returned
    retErr,        \* the error returned
    isNeedStop,    \* the second result of startOrderServers
    \* ---- forkChild
    osArgs,        \* os.Args
    reloadServers, \* e.reloadServers: what Listener() of each gives
    env,           \* the environment of the process
    published,     \* the environment keys forkChild has written with os.Setenv
    pcF,           \* the goroutine calling forkChild
    li,            \* position of the range loop over e.reloadServers
    lc,            \* local lc
    fnames,        \* local fnames
    extraFiles,    \* local extraFiles
    args,          \* local args
    cmd,           \* the exec.Cmd built
    child,         \* the process launched, as the command that launched it
    forkRet,       \* the results of forkChild
    \* ---- runSerialFuncReturnError, runSerialFuncLogError
    runner,        \* the function called
    nHooks,        \* len(fns)
    pcK,           \* the goroutine calling it
    hi,            \* position of the range loop over fns
    hcalls,        \* the hooks invoked so far, in order
    hres,          \* per hook: the result of its call ("none" before it returns)
    hlog,          \* the errors logged with "beforeStopClean err"
    hret           \* the error returned by runSerialFuncReturnError

sigVars == <<sigq, notifying, sent, pcH, pcS, s, received, grace, reload, stopInfo,
             stopInfoWrites, stopCalls, stopCtx, stopInTime, timeoutLogged,
             exited, exitCode, clock>>

cfgVars == <<entry, nOrd, nJobs, nSrv>>
loopVars == <<idx, attempts, isHealth, prepRes, initRes, initOrder, polled, healthyOnce>>
unitVars == <<opc, regRes, startRes, ulog>>
jobVars == <<jgo, jpc, jres, egErr, failOrder>>
retVars == <<retErr, isNeedStop>>
startVars == <<cfgVars, pcM, loopVars, unitVars, jobVars, retVars>>

forkCfg == <<osArgs, reloadServers>>
forkVars == <<forkCfg, env, published, pcF, li, lc, fnames, extraFiles, args, cmd, child, forkRet>>

hookCfg == <<runner, nHooks>>
hookVars == <<hookCfg, pcK, hi, hcalls, hres, hlog, hret>>

\* what each unit leaves alone
outsideSignals == <<startVars, forkVars, hookVars>>
outsideStartup == <<sigVars, forkVars, hookVars>>
outsideFork == <<sigVars, startVars, hookVars>>
outsideHooks == <<sigVars, startVars, forkVars>>

vars == <<sigVars, startVars, forkVars, hookVars>>

(***************************************************************************)
(* waitSignals                                                             *)
(***************************************************************************)
\* grace := s != syscall.SIGQUIT
IsGraceDropped(sg) == TRUE
IsGrace(sg) == sg # SIGQUIT

\* reload := s == ReloadSignal
IsReload(sg) == sg = ReloadSignal

\* the signal os.Exit takes its status from: s, bound by the first receive;
\* the value of the second receive is discarded
ExitSignalLatest(first, second) == second
ExitSignal(first, second) == first

\* os.Exit(128 + int(s.(syscall.Signal)))
ExitStatusNoOffset(sg) == sg
ExitStatus(sg) == 128 + sg

\* signal.Notify's relay: a non-blocking send, the signal is dropped when the
\* channel is full or the relay has been stopped
Relay(q, sg) ==
    IF notifying /\ sg \in NotifySet /\ Len(q) < SigChanCap THEN Append(q, sg) ELSE q

SigInit ==
    /\ sigq = <<>>
    /\ notifying = FALSE
    /\ sent = 0
    /\ pcH = "none"
    /\ pcS = "none"
    /\ s = NoSignal
    /\ received = <<>>
    /\ grace = FALSE
    /\ reload = FALSE
    /\ stopInfo = NoStopInfo
    /\ stopInfoWrites = 0
    /\ stopCalls = <<>>
    /\ stopCtx = NoCtx
    /\ stopInTime = FALSE
    /\ timeoutLogged = FALSE
    /\ exited = FALSE
    /\ exitCode = 0
    /\ clock = 0

\* waitSignals itself: make the channel, signal.Notify, start the goroutine
WaitSignals ==
    /\ pcH = "none"
    /\ ~exited
    /\ sigq' = <<>>
    /\ notifying' = TRUE
    /\ pcH' = "recv1"
    /\ UNCHANGED <<outsideSignals, received, sent, pcS, s, grace, reload, stopInfo, stopInfoWrites,
                   stopCalls, stopCtx, stopInTime, timeoutLogged, exited,
                   exitCode, clock>>

\* the operating system sends a signal to the process
OsSignal ==
    /\ pcH # "none"
    /\ ~exited
    /\ sent < MaxSignals
    /\ \E sg \in NotifySet :
         /\ sigq' = Relay(sigq, sg)
         /\ sent' = sent + 1
    /\ UNCHANGED <<outsideSignals, received, notifying, pcH, pcS, s, grace, reload, stopInfo,
                   stopInfoWrites, stopCalls, stopCtx, stopInTime,
                   timeoutLogged, exited, exitCode, clock>>

\* s := <-sig; grace, reload; go func() {...}()
HandlerFirstSignal ==
    /\ pcH = "recv1"
    /\ ~exited
    /\ sigq # <<>>
    /\ s' = Head(sigq)
    /\ received' = <<Head(sigq)>>
    /\ sigq' = Tail(sigq)
    /\ grace' = IsGrace(Head(sigq))
    /\ reload' = IsReload(Head(sigq))
    /\ pcS' = "setInfo"
    /\ pcH' = "recv2"
    /\ UNCHANGED <<outsideSignals, notifying, sent, stopInfo, stopInfoWrites, stopCalls,
                   stopCtx, stopInTime, timeoutLogged, exited, exitCode, clock>>

\* the channel operation the outer goroutine blocks in after the first signal
HandlerSecondWaitsForStop == pcH = "recv2" /\ sigq # <<>> /\ pcS = "done"
HandlerSecondReady == pcH = "recv2" /\ sigq # <<>>

\* <-sig; os.Exit(128 + int(s.(syscall.Signal)))
HandlerSecondSignal ==
    /\ HandlerSecondReady
    /\ ~exited
    /\ sigq' = Tail(sigq)
    /\ pcH' = "exited"
    /\ exited' = TRUE
    /\ received' = Append(received, Head(sigq))
    /\ exitCode' = ExitStatus(ExitSignal(s, Head(sigq)))
    /\ UNCHANGED <<outsideSignals, notifying, sent, pcS, s, grace, reload, stopInfo,
                   stopInfoWrites, stopCalls, stopCtx, stopInTime,
                   timeoutLogged, clock>>

\* e.stopInfo = stopInfo{time.Now(), grace, reload}
StopSetInfo ==
    /\ pcS = "setInfo"
    /\ ~exited
    /\ stopInfo' = [set |-> TRUE, stopStartTime |-> clock,
                    isGracefulStop |-> grace, isReload |-> reload]
    /\ stopInfoWrites' = stopInfoWrites + 1
    /\ pcS' = "mkctx"
    /\ UNCHANGED <<outsideSignals, received, sigq, notifying, sent, pcH, s, grace, reload, stopCalls,
                   stopCtx, stopInTime, timeoutLogged, exited, exitCode, clock>>

\* context.WithTimeoutCause(context.Background(), e.opts.stopTimeout, ...)
StopMakeCtx ==
    /\ pcS = "mkctx"
    /\ ~exited
    /\ stopCtx' = [created |-> TRUE, deadline |-> clock + StopTimeout,
                   err |-> IF StopTimeout <= 0 THEN "DeadlineExceeded" ELSE "nil"]
    /\ pcS' = "callStop"
    /\ UNCHANGED <<outsideSignals, received, sigq, notifying, sent, pcH, s, grace, reload, stopInfo,
                   stopInfoWrites, stopCalls, stopInTime, timeoutLogged,
                   exited, exitCode, clock>>

\* _ = e.Stop(stopCtx, grace, reload): the call
StopCall ==
    /\ pcS = "callStop"
    /\ ~exited
    /\ stopCalls' = Append(stopCalls, [graceful |-> grace, reload |-> reload])
    /\ pcS' = "inStop"
    /\ UNCHANGED <<outsideSignals, received, sigq, notifying, sent, pcH, s, grace, reload, stopInfo,
                   stopInfoWrites, stopCtx, stopInTime, timeoutLogged,
                   exited, exitCode, clock>>

\* e.Stop returns (it may also never return)
StopReturn ==
    /\ pcS = "inStop"
    /\ ~exited
    /\ stopInTime' = (stopCtx.err = "nil")
    /\ pcS' = "waitDone"
    /\ UNCHANGED <<outsideSignals, received, sigq, notifying, sent, pcH, s, grace, reload, stopInfo,
                   stopInfoWrites, stopCalls, stopCtx, timeoutLogged,
                   exited, exitCode, clock>>

\* <-stopCtx.Done(); if errors.Is(stopCtx.Err(), context.DeadlineExceeded) {log}
StopWaitDone ==
    /\ pcS = "waitDone"
    /\ ~exited
    /\ stopCtx.err # "nil"
    /\ timeoutLogged' = (stopCtx.err = "DeadlineExceeded")
    /\ pcS' = "deferred"
    /\ UNCHANGED <<outsideSignals, received, sigq, notifying, sent, pcH, s, grace, reload, stopInfo,
                   stopInfoWrites, stopCalls, stopCtx, stopInTime,
                   exited, exitCode, clock>>

\* defer func() { signal.Stop(sig); cancel() }()
StopDeferred ==
    /\ pcS = "deferred"
    /\ ~exited
    /\ notifying' = FALSE
    /\ stopCtx' = [stopCtx EXCEPT !.err = IF @ = "nil" THEN "Canceled" ELSE @]
    /\ pcS' = "done"
    /\ UNCHANGED <<outsideSignals, received, sigq, sent, pcH, s, grace, reload, stopInfo,
                   stopInfoWrites, stopCalls, stopInTime, timeoutLogged,
                   exited, exitCode, clock>>

\* time passes; the timer of the deadline scope fires at its deadline
Tick ==
    /\ ~exited
    /\ pcH # "none"
    /\ clock < MaxClock
    /\ clock' = clock + 1
    /\ stopCtx' = IF stopCtx.created /\ stopCtx.err = "nil" /\ clock + 1 >= stopCtx.deadline
                  THEN [stopCtx EXCEPT !.err = "DeadlineExceeded"]
                  ELSE stopCtx
    /\ UNCHANGED <<outsideSignals, received, sigq, notifying, sent, pcH, pcS, s, grace, reload, stopInfo,
                   stopInfoWrites, stopCalls, stopInTime, timeoutLogged,
                   exited, exitCode>>

SigNext ==
    \/ WaitSignals
    \/ OsSignal
    \/ HandlerFirstSignal
    \/ HandlerSecondSignal
    \/ StopSetInfo
    \/ StopMakeCtx
    \/ StopCall
    \/ StopReturn
    \/ StopWaitDone
    \/ StopDeferred
    \/ Tick

(***************************************************************************)
(* Errors.  An error value is its kind, the job it comes from and its      *)
(* text (a sequence of text runs).                                         *)
(***************************************************************************)
NilError == [kind |-> "nil", job |-> 0, msg |-> <<>>]
\* the error the Start of job j returns when it fails
JobError(j) == [kind |-> "job", job |-> j, msg |-> <<>>]

DigitChar == <<"0", "1", "2", "3", "4", "5", "6", "7", "8", "9">>

RECURSIVE Digits(_)
\* the decimal digits of n >= 0, most significant first
Digits(n) ==
    IF n < 10 THEN <<DigitChar[n + 1]>>
    ELSE Append(Digits(n \div 10), DigitChar[(n % 10) + 1])

\* s.Name() of the i-th ordered server.  Names are configuration: "s1",
\* "s2%", "s3", ...; every second one ends in a per cent sign, the one
\* character fmt.Errorf does not copy.
Name(i) ==
    <<"s">> \o Digits(i) \o (IF i % 2 = 0 THEN <<"%">> ELSE <<>>)

RECURSIVE Sprintf(_)
\* fmt's rendering of a format string when no operand is passed: text is
\* copied, "%%" gives "%", a verb finds its operand missing, a trailing "%"
\* has no verb.  (Flags and widths after "%" do not occur in the names.)
Sprintf(f) ==
    IF f = <<>> THEN <<>>
    ELSE IF Head(f) # "%" THEN <<Head(f)>> \o Sprintf(Tail(f))
    ELSE IF Len(f) = 1 THEN <<"%!(NOVERB)">>
    ELSE IF f[2] = "%" THEN <<"%">> \o Sprintf(Tail(Tail(f)))
    ELSE <<"%!", f[2], "(MISSING)">> \o Sprintf(Tail(Tail(f)))

\* fmt.Errorf("start order server fail,err:  " + s.Name())
OrderFailErrorOfFirst(i) ==
    [kind |-> "errorString", job |-> 0,
     msg |-> Sprintf(<<"start order server fail,err:  ">> \o Name(1))]
OrderFailError(i) ==
    [kind |-> "errorString", job |-> 0,
     msg |-> Sprintf(<<"start order server fail,err:  ">> \o Name(i))]

(***************************************************************************)
(* Retry policy (internal/retry): Continue allows another probe or stops;  *)
(* it stops at the latest after MaxAttempts probes.                        *)
(***************************************************************************)
RetryContinue(n) == IF n < MaxAttempts THEN {TRUE, FALSE} ELSE {FALSE}

(***************************************************************************)
(* startOrderServers and startJobs                                         *)
(***************************************************************************)
Orders == 1..MaxOrder
Jobs == 1..MaxJobs
Outcome == {"ok", "err"}

\* the values before the run calls either function
StartIdle ==
    /\ pcM = "idle"
    /\ idx = 1
    /\ attempts = 0
    /\ isHealth = FALSE
    /\ prepRes = [i \in Orders |-> "none"]
    /\ initRes = [i \in Orders |-> "none"]
    /\ initOrder = <<>>
    /\ polled = [i \in Orders |-> FALSE]
    /\ healthyOnce = [i \in Orders |-> FALSE]
    /\ opc = [i \in Orders |-> "none"]
    /\ regRes = [i \in Orders |-> "none"]
    /\ startRes = [i \in Orders |-> "none"]
    /\ ulog = [i \in Orders |-> <<>>]
    /\ jgo = 1
    /\ jpc = [j \in Jobs |-> "idle"]
    /\ jres = [j \in Jobs |-> "none"]
    /\ egErr = NilError
    /\ failOrder = <<>>
    /\ retErr = NilError
    /\ isNeedStop = FALSE

StartInit ==
    /\ entry \in {"startOrderServers", "startJobs"}
    /\ nOrd \in 0..MaxOrder
    /\ nJobs \in 0..MaxJobs
    /\ nSrv = 0
    /\ StartIdle

\* the run calls startServers or startReloadServers: the two functions have the
\* same body over e.servers and over e.reloadServers
ServersInit ==
    /\ entry \in {"startServers", "startReloadServers"}
    /\ nSrv \in 0..MaxOrder
    /\ nOrd = 0
    /\ nJobs = 0
    /\ StartIdle

\* the run calls startOrderServers(ctx), startJobs(), startServers(ctx) or
\* startReloadServers(ctx)
Call ==
    /\ pcM = "idle"
    /\ pcM' = CASE entry = "startOrderServers" -> "orderLoop"
                [] entry = "startJobs" -> "jobsEntry"
                [] OTHER -> "serversLoop"
    /\ UNCHANGED <<outsideStartup, cfgVars, loopVars, unitVars, jobVars, retVars>>

\* for _, s := range e.orderServers { ... } return nil, false
OrderLoop ==
    /\ pcM = "orderLoop"
    /\ IF idx <= nOrd
       THEN /\ pcM' = "prepare"
            /\ UNCHANGED retVars
       ELSE /\ pcM' = "returned"
            /\ retErr' = NilError
            /\ isNeedStop' = FALSE
    /\ UNCHANGED <<outsideStartup, cfgVars, loopVars, unitVars, jobVars>>

\* _ = s.Prepare()
OrderPrepare ==
    /\ pcM = "prepare"
    /\ \E r \in Outcome : prepRes' = [prepRes EXCEPT ![idx] = r]
    /\ pcM' = "checkJobs"
    /\ UNCHANGED <<outsideStartup, cfgVars, idx, attempts, isHealth, initRes, initOrder,
                   polled, healthyOnce, unitVars, jobVars, retVars>>

\* if len(e.jobs) > 0 { return e.startJobs(), true }
JobModeNever == FALSE
JobMode == nJobs > 0

OrderCheckJobs ==
    /\ pcM = "checkJobs"
    /\ pcM' = IF JobMode THEN "jobsEntry" ELSE "init"
    /\ UNCHANGED <<outsideStartup, cfgVars, loopVars, unitVars, jobVars, retVars>>

\* _ = s.Init()
OrderInit ==
    /\ pcM = "init"
    /\ \E r \in Outcome : initRes' = [initRes EXCEPT ![idx] = r]
    /\ initOrder' = Append(initOrder, idx)
    /\ pcM' = "submit"
    /\ UNCHANGED <<outsideStartup, cfgVars, idx, attempts, isHealth, prepRes,
                   polled, healthyOnce, unitVars, jobVars, retVars>>

\* e.cycle.Run(func() (err error) {...}); isHealth := false; r := retry.Begin()
OrderSubmit ==
    /\ pcM = "submit"
    /\ opc' = [opc EXCEPT ![idx] = "register"]
    /\ isHealth' = FALSE
    /\ attempts' = 0
    /\ pcM' = "retry"
    /\ UNCHANGED <<outsideStartup, cfgVars, idx, prepRes, initRes, initOrder, polled,
                   healthyOnce, regRes, startRes, ulog, jobVars, retVars>>

\* for r := retry.Begin(); r.Continue(ctx); { ... }
\* (r is scoped to the loop: the count is dropped when the loop is left)
OrderRetry ==
    /\ pcM = "retry"
    /\ \E c \in RetryContinue(attempts) :
         IF c THEN /\ pcM' = "health"
                   /\ attempts' = attempts + 1
              ELSE /\ pcM' = "checkHealth"
                   /\ attempts' = 0
    /\ UNCHANGED <<outsideStartup, cfgVars, idx, isHealth, prepRes, initRes, initOrder,
                   polled, healthyOnce, unitVars, jobVars, retVars>>

\* where the break after a ready probe leaves the caller
AfterHealthyKeepsPolling == "retry"
AfterHealthy == "checkHealth"

\* if s.Health() { isHealth = true; break }
OrderHealth ==
    /\ pcM = "health"
    /\ polled' = [polled EXCEPT ![idx] = TRUE]
    /\ \E h \in BOOLEAN :
         IF h THEN /\ isHealth' = TRUE
                   /\ healthyOnce' = [healthyOnce EXCEPT ![idx] = TRUE]
                   /\ pcM' = AfterHealthy
                   /\ attempts' = 0
              ELSE /\ pcM' = "retry"
                   /\ UNCHANGED <<isHealth, healthyOnce, attempts>>
    /\ UNCHANGED <<outsideStartup, cfgVars, idx, prepRes, initRes, initOrder,
                   unitVars, jobVars, retVars>>

\* if !isHealth { return fmt.Errorf(...), true }
\* (isHealth is declared anew for every server)
GiveUpNever == FALSE
GiveUp == ~isHealth
\* the second result of that return
StopAfterFailureDropped == FALSE
StopAfterFailure == TRUE

OrderCheckHealth ==
    /\ pcM = "checkHealth"
    /\ IF GiveUp
       THEN /\ pcM' = "returned"
            /\ retErr' = OrderFailError(idx)
            /\ isNeedStop' = StopAfterFailure
            /\ UNCHANGED idx
       ELSE /\ pcM' = "orderLoop"
            /\ idx' = idx + 1
            /\ UNCHANGED retVars
    /\ isHealth' = FALSE
    /\ UNCHANGED <<outsideStartup, cfgVars, attempts, prepRes, initRes,
                   initOrder, polled, healthyOnce, unitVars, jobVars>>

\* for _, s := range e.servers { s := s; e.cycle.Run(func() (err error) {...}) }
\* return nil
ServersLoop ==
    /\ pcM = "serversLoop"
    /\ IF idx <= nSrv
       THEN /\ opc' = [opc EXCEPT ![idx] = "init"]
            /\ idx' = idx + 1
            /\ UNCHANGED <<pcM, retVars>>
       ELSE /\ pcM' = "returned"
            /\ retErr' = NilError
            /\ UNCHANGED <<idx, opc, isNeedStop>>
    /\ UNCHANGED <<outsideStartup, cfgVars, attempts, isHealth, prepRes, initRes, initOrder,
                   polled, healthyOnce, regRes, startRes, ulog, jobVars>>

\* the statement the run unit goes on with after _ = s.Init()
AfterInitAbortOnError(r) == IF r = "err" THEN "done" ELSE "register"
AfterInit(r) == "register"

\* the run unit of plain or reload server i: _ = s.Init()
UnitInit(i) ==
    /\ opc[i] = "init"
    /\ \E r \in Outcome :
         /\ initRes' = [initRes EXCEPT ![i] = r]
         /\ opc' = [opc EXCEPT ![i] = AfterInit(r)]
    /\ ulog' = [ulog EXCEPT ![i] = Append(@, "Init")]
    /\ UNCHANGED <<outsideStartup, cfgVars, pcM, idx, attempts, isHealth, prepRes, initOrder,
                   polled, healthyOnce, regRes, startRes, jobVars, retVars>>

\* the statement the run unit goes on with after RegisterService:
\* if err != nil { e.logger.Error(...) }
AfterRegisterAbortOnError(r) == IF r = "err" THEN "done" ELSE "start"
AfterRegister(r) == "start"

\* the run unit of server i: err = e.registerer.RegisterService(ctx, s.Info())
UnitRegister(i) ==
    /\ opc[i] = "register"
    /\ \E r \in Outcome :
         /\ regRes' = [regRes EXCEPT ![i] = r]
         /\ opc' = [opc EXCEPT ![i] = AfterRegister(r)]
    /\ ulog' = [ulog EXCEPT ![i] = Append(@, "RegisterService")]
    /\ UNCHANGED <<outsideStartup, cfgVars, pcM, loopVars, startRes, jobVars, retVars>>

\* err = s.Start(): the call
UnitStart(i) ==
    /\ opc[i] = "start"
    /\ opc' = [opc EXCEPT ![i] = "running"]
    /\ ulog' = [ulog EXCEPT ![i] = Append(@, "Start")]
    /\ UNCHANGED <<outsideStartup, cfgVars, pcM, loopVars, regRes, startRes, jobVars, retVars>>

\* what runs when the closure returns with Start's result: the deferred
\* UnregisterService
AfterStartSkipOnError(r) == IF r = "err" THEN "done" ELSE "unregister"
AfterStart(r) == "unregister"

\* s.Start() returns
UnitStartReturn(i) ==
    /\ opc[i] = "running"
    /\ \E r \in Outcome :
         /\ startRes' = [startRes EXCEPT ![i] = r]
         /\ opc' = [opc EXCEPT ![i] = AfterStart(r)]
    /\ ulog' = [ulog EXCEPT ![i] = Append(@, "StartReturned")]
    /\ UNCHANGED <<outsideStartup, cfgVars, pcM, loopVars, regRes, jobVars, retVars>>

\* defer func() { _ = e.registerer.UnregisterService(ctx, s.Info()) }()
UnitUnregister(i) ==
    /\ opc[i] = "unregister"
    /\ opc' = [opc EXCEPT ![i] = "done"]
    /\ ulog' = [ulog EXCEPT ![i] = Append(@, "UnregisterService")]
    /\ UNCHANGED <<outsideStartup, cfgVars, pcM, loopVars, regRes, startRes, jobVars, retVars>>

\* startJobs hands its result to its caller: the run, or
\* startOrderServers' "return e.startJobs(), true"
JobsReturn(err) ==
    /\ pcM' = "returned"
    /\ retErr' = err
    /\ isNeedStop' = (entry = "startOrderServers")

\* if len(e.jobs) == 0 { return nil }; wrap jobs; eg := errgroup.Group{}
JobsEntry ==
    /\ pcM = "jobsEntry"
    /\ IF nJobs = 0
       THEN JobsReturn(NilError)
       ELSE /\ pcM' = "jobsGo"
            /\ UNCHANGED retVars
    /\ jgo' = 1
    /\ UNCHANGED <<outsideStartup, cfgVars, loopVars, unitVars, jpc, jres, egErr, failOrder>>

\* for _, fn := range jobs { eg.Go(fn) }
JobsGo ==
    /\ pcM = "jobsGo"
    /\ jpc' = [jpc EXCEPT ![jgo] = "running"]
    /\ jgo' = jgo + 1
    /\ pcM' = IF jgo = nJobs THEN "jobsWait" ELSE "jobsGo"
    /\ UNCHANGED <<outsideStartup, cfgVars, loopVars, unitVars, jres, egErr, failOrder, retVars>>

\* errgroup: the goroutine of eg.Go: err := f(), that is runner.Start()
JobStartReturn(j) ==
    /\ jpc[j] = "running"
    /\ \E r \in Outcome :
         /\ jres' = [jres EXCEPT ![j] = r]
         /\ failOrder' = IF r = "err" THEN Append(failOrder, j) ELSE failOrder
    /\ jpc' = [jpc EXCEPT ![j] = "returned"]
    /\ UNCHANGED <<outsideStartup, cfgVars, pcM, loopVars, unitVars, jgo, egErr, retVars>>

\* errgroup: if err != nil { g.errOnce.Do(func() { g.err = err }) }; g.done()
ErrOnceLast(j) ==
    IF jres[j] = "err" THEN JobError(j) ELSE egErr
ErrOnce(j) ==
    IF jres[j] = "err" /\ egErr = NilError THEN JobError(j) ELSE egErr

JobDone(j) ==
    /\ jpc[j] = "returned"
    /\ egErr' = ErrOnce(j)
    /\ jpc' = [jpc EXCEPT ![j] = "done"]
    /\ UNCHANGED <<outsideStartup, cfgVars, pcM, loopVars, unitVars, jgo, jres, failOrder, retVars>>

\* errgroup: Wait blocks until every goroutine is done
WaitReadyAtOnce == TRUE
WaitReady == \A j \in 1..nJobs : jpc[j] = "done"

\* return eg.Wait()
JobsWait ==
    /\ pcM = "jobsWait"
    /\ WaitReady
    /\ JobsReturn(egErr)
    /\ UNCHANGED <<outsideStartup, cfgVars, loopVars, unitVars, jobVars>>

StartNext ==
    \/ Call
    \/ OrderLoop
    \/ OrderPrepare
    \/ OrderCheckJobs
    \/ OrderInit
    \/ OrderSubmit
    \/ OrderRetry
    \/ OrderHealth
    \/ OrderCheckHealth
    \/ \E i \in Orders : UnitRegister(i)
    \/ \E i \in Orders : UnitStart(i)
    \/ \E i \in Orders : UnitStartReturn(i)
    \/ \E i \in Orders : UnitUnregister(i)
    \/ JobsEntry
    \/ JobsGo
    \/ \E j \in Jobs : JobStartReturn(j)
    \/ \E j \in Jobs : JobDone(j)
    \/ JobsWait

\* the steps of the goroutine that called startOrderServers or startJobs
CallerStep ==
    \/ Call
    \/ OrderLoop
    \/ OrderPrepare
    \/ OrderCheckJobs
    \/ OrderInit
    \/ OrderSubmit
    \/ OrderRetry
    \/ OrderHealth
    \/ OrderCheckHealth
    \/ JobsEntry
    \/ JobsGo
    \/ JobsWait

\* the steps of all four startup functions and of the run units they submit
RunUnitsNext ==
    \/ StartNext
    \/ ServersLoop
    \/ \E i \in Orders : UnitInit(i)

(***************************************************************************)
(* forkChild                                                               *)
(***************************************************************************)
\* os.Args[0]
ProgramPath == "/usr/local/bin/app"
\* the words an argument list is made of
ArgWords == {"-r", "--config=config.toml"}
\* os.Args: the program path and up to MaxArgs arguments
ArgLists ==
    UNION {[1..n -> ArgWords] : n \in 0..MaxArgs}

\* what the Listener() of a reload server is: a *net.TCPListener whose File()
\* succeeds (its file carries the name given), one whose File() fails, or a
\* listener of another type.  Names are sequences of text runs.
FileNames == {<<"tcp", ":", "[::]", ":", "9001", "->">>, <<"tcp", ":", "[::]", ":", "9002", "->">>}
Listeners ==
    [kind : {"tcp"}, name : FileNames]
        \cup {[kind |-> "tcpNoFile", name |-> <<>>], [kind |-> "other", name |-> <<>>]}
ListenerLists ==
    UNION {[1..n -> Listeners] : n \in 0..MaxListeners}

EnvKeys == {"LISTEN_FDS", "LISTEN_FDNAMES", "FORK_CHILD"}
Unset == <<"(unset)">>
\* the environment of a process started from a shell, and of one that is
\* itself the child of an earlier reload
FreshEnv == [k \in EnvKeys |-> Unset]
InheritedEnv ==
    [k \in EnvKeys |->
        CASE k = "LISTEN_FDS" -> <<"1">>
          [] k = "LISTEN_FDNAMES" -> <<"tcp", ":", "[::]", ":", "9001", "->">>
          [] k = "FORK_CHILD" -> <<"1">>]

NoCmd == [built |-> FALSE, path |-> "", args |-> <<>>, extraFiles |-> <<>>, env |-> FreshEnv]
NoResult == [pid |-> 0, err |-> "none"]
\* the process id the operating system gives the child
ChildPid == 4711

\* the values before forkChild is called
ForkIdle ==
    /\ pcF = "idle"
    /\ published = {}
    /\ li = 1
    /\ lc = 0
    /\ fnames = <<>>
    /\ extraFiles = <<>>
    /\ args = <<>>
    /\ cmd = NoCmd
    /\ child = NoCmd
    /\ forkRet = NoResult

ForkInit ==
    /\ osArgs \in {<<ProgramPath>> \o a : a \in ArgLists}
    /\ reloadServers \in ListenerLists
    /\ env \in {FreshEnv, InheritedEnv}
    /\ ForkIdle

\* if len(os.Args) > 1 { args = os.Args[1:] }
ForkEntry ==
    /\ pcF = "idle"
    /\ args' = IF Len(osArgs) > 1 THEN SubSeq(osArgs, 2, Len(osArgs)) ELSE <<>>
    /\ lc' = 0
    /\ li' = 1
    /\ pcF' = "listeners"
    /\ UNCHANGED <<outsideFork, forkCfg, env, published, fnames, extraFiles, cmd, child, forkRet>>

\* lc++
CountAfterStuck(n) == n
CountAfter(n) == n + 1

\* tl, ok := ln.Listener().(*net.TCPListener); f, err := tl.File():
\* !ok or err != nil
ExtractionFailsOnlyType(ln) == ln.kind = "other"
ExtractionFails(ln) == ln.kind # "tcp"

\* one iteration of: for _, ln := range e.reloadServers { ... }
ForkListener ==
    /\ pcF = "listeners"
    /\ li <= Len(reloadServers)
    /\ LET ln == reloadServers[li] IN
         IF ~ExtractionFails(ln)
         THEN /\ fnames' = Append(fnames, ln.name)
              /\ extraFiles' = Append(extraFiles, [listener |-> li, name |-> ln.name])
              /\ lc' = CountAfter(lc)
              /\ li' = li + 1
              /\ UNCHANGED pcF
         ELSE \* elog.EgoLogger.Panic: not a tcp listener, or File() failed
              /\ pcF' = "panicked"
              /\ UNCHANGED <<fnames, extraFiles, lc, li>>
    /\ UNCHANGED <<outsideFork, forkCfg, env, published, args, cmd, child, forkRet>>

RECURSIVE Join(_, _)
\* strings.Join(elems, sep)
Join(elems, sep) ==
    IF elems = <<>> THEN <<>>
    ELSE IF Len(elems) = 1 THEN elems[1]
    ELSE elems[1] \o <<sep>> \o Join(Tail(elems), sep)

\* os.Setenv("LISTEN_FDS", fmt.Sprintf("%d", lc))
ForkSetenvFds ==
    /\ pcF = "listeners"
    /\ li > Len(reloadServers)
    /\ \/ /\ env' = [env EXCEPT !["LISTEN_FDS"] = Digits(lc)]
          /\ published' = published \cup {"LISTEN_FDS"}
          /\ pcF' = "setNames"
       \/ /\ pcF' = "panicked"
          /\ UNCHANGED <<env, published>>
    /\ UNCHANGED <<outsideFork, forkCfg, li, lc, fnames, extraFiles, args, cmd, child, forkRet>>

\* os.Setenv("LISTEN_FDNAMES", strings.Join(fnames, ":"))
ForkSetenvNames ==
    /\ pcF = "setNames"
    /\ \/ /\ env' = [env EXCEPT !["LISTEN_FDNAMES"] = Join(fnames, ":")]
          /\ published' = published \cup {"LISTEN_FDNAMES"}
          /\ pcF' = "setChild"
       \/ /\ pcF' = "panicked"
          /\ UNCHANGED <<env, published>>
    /\ UNCHANGED <<outsideFork, forkCfg, li, lc, fnames, extraFiles, args, cmd, child, forkRet>>

\* os.Setenv("FORK_CHILD", "1")
ForkSetenvChild ==
    /\ pcF = "setChild"
    /\ \/ /\ env' = [env EXCEPT !["FORK_CHILD"] = <<"1">>]
          /\ published' = published \cup {"FORK_CHILD"}
          /\ pcF' = "command"
       \/ /\ pcF' = "panicked"
          /\ UNCHANGED <<env, published>>
    /\ UNCHANGED <<outsideFork, forkCfg, li, lc, fnames, extraFiles, args, cmd, child, forkRet>>

RECURSIVE Contains(_, _)
\* lo.Contains(collection, element)
Contains(collection, element) ==
    IF collection = <<>> THEN FALSE
    ELSE IF Head(collection) = element THEN TRUE
    ELSE Contains(Tail(collection), element)

\* if !lo.Contains(args, "-r") { args = append(args, "-r") }
WithReloadFlagAlways(a) == Append(a, "-r")
WithReloadFlag(a) == IF ~Contains(a, "-r") THEN Append(a, "-r") ELSE a

\* cmd := exec.Command(path, args...); cmd.ExtraFiles = extraFiles; cmd.Env = os.Environ()
ForkCommand ==
    /\ pcF = "command"
    /\ args' = WithReloadFlag(args)
    /\ cmd' = [built |-> TRUE,
               path |-> osArgs[1],
               args |-> <<osArgs[1]>> \o WithReloadFlag(args),
               extraFiles |-> extraFiles,
               env |-> env]
    /\ pcF' = "start"
    /\ UNCHANGED <<outsideFork, forkCfg, env, published, li, lc, fnames, extraFiles, child, forkRet>>

\* err := cmd.Start(); return 0, err or cmd.Process.Pid, nil
ForkStart ==
    /\ pcF = "start"
    /\ \/ /\ child' = cmd
          /\ forkRet' = [pid |-> ChildPid, err |-> "nil"]
       \/ /\ forkRet' = [pid |-> 0, err |-> "start failed"]
          /\ UNCHANGED child
    /\ pcF' = "returned"
    /\ UNCHANGED <<outsideFork, forkCfg, env, published, li, lc, fnames, extraFiles, args, cmd>>

ForkNext ==
    \/ ForkEntry
    \/ ForkListener
    \/ ForkSetenvFds
    \/ ForkSetenvNames
    \/ ForkSetenvChild
    \/ ForkCommand
    \/ ForkStart

(***************************************************************************)
(* runSerialFuncReturnError and runSerialFuncLogError                      *)
(***************************************************************************)
Hooks == 1..MaxHooks
\* the error hook i returns when it fails
HookError(i) == [kind |-> "hook", job |-> i, msg |-> <<"hook failed">>]

\* the values before either function is called
HooksIdle ==
    /\ pcK = "idle"
    /\ hi = 1
    /\ hcalls = <<>>
    /\ hres = [i \in Hooks |-> "none"]
    /\ hlog = <<>>
    /\ hret = NilError

HooksInit ==
    /\ runner \in {"runSerialFuncReturnError", "runSerialFuncLogError"}
    /\ nHooks \in 0..MaxHooks
    /\ HooksIdle

\* the Stop procedure calls one of the two functions with a list of hooks
HooksCall ==
    /\ pcK = "idle"
    /\ pcK' = "loop"
    /\ hi' = 1
    /\ UNCHANGED <<outsideHooks, hookCfg, hcalls, hres, hlog, hret>>

\* runSerialFuncReturnError: for _, fn := range fns { err := fn() ... }; return nil
ReturnErrorLoop ==
    /\ runner = "runSerialFuncReturnError"
    /\ pcK = "loop"
    /\ IF hi <= nHooks
       THEN /\ hcalls' = Append(hcalls, hi)
            /\ pcK' = "inHook"
            /\ UNCHANGED hret
       ELSE /\ pcK' = "returned"
            /\ hret' = NilError
            /\ UNCHANGED hcalls
    /\ UNCHANGED <<outsideHooks, hookCfg, hi, hres, hlog>>

\* if err != nil { return err }
ReturnOnErrorNever(err) == FALSE
ReturnOnError(err) == err # NilError

\* runSerialFuncReturnError: fn() returns
ReturnErrorHook ==
    /\ runner = "runSerialFuncReturnError"
    /\ pcK = "inHook"
    /\ \E err \in {NilError, HookError(hi)} :
         /\ hres' = [hres EXCEPT ![hi] = IF err = NilError THEN "ok" ELSE "err"]
         /\ IF ReturnOnError(err)
            THEN /\ pcK' = "returned"
                 /\ hret' = err
                 /\ UNCHANGED hi
            ELSE /\ pcK' = "loop"
                 /\ hi' = hi + 1
                 /\ UNCHANGED hret
    /\ UNCHANGED <<outsideHooks, hookCfg, hcalls, hlog>>

\* runSerialFuncLogError: for _, clean := range fns { err := clean() ... }
LogErrorLoop ==
    /\ runner = "runSerialFuncLogError"
    /\ pcK = "loop"
    /\ IF hi <= nHooks
       THEN /\ hcalls' = Append(hcalls, hi)
            /\ pcK' = "inHook"
       ELSE /\ pcK' = "returned"
            /\ UNCHANGED hcalls
    /\ UNCHANGED <<outsideHooks, hookCfg, hi, hres, hlog, hret>>

\* runSerialFuncLogError: clean() returns; if err != nil { elog.EgoLogger.Error(...) }
LogErrorHook ==
    /\ runner = "runSerialFuncLogError"
    /\ pcK = "inHook"
    /\ \E err \in {NilError, HookError(hi)} :
         /\ hres' = [hres EXCEPT ![hi] = IF err = NilError THEN "ok" ELSE "err"]
         /\ hlog' = IF err # NilError THEN Append(hlog, err) ELSE hlog
    /\ hi' = hi + 1
    /\ pcK' = "loop"
    /\ UNCHANGED <<outsideHooks, hookCfg, hcalls, hret>>

HooksNext ==
    \/ HooksCall
    \/ ReturnErrorLoop
    \/ ReturnErrorHook
    \/ LogErrorLoop
    \/ LogErrorHook

(***************************************************************************)
(* Specifications                                                          *)
(***************************************************************************)
\* the signal handler; the startup functions are not called
\* the configuration of a unit that is not run
NoStartup == entry = "none" /\ nOrd = 0 /\ nJobs = 0 /\ nSrv = 0 /\ StartIdle
NoFork == osArgs = <<ProgramPath>> /\ reloadServers = <<>> /\ env = FreshEnv /\ ForkIdle
NoHooks == runner = "none" /\ nHooks = 0 /\ HooksIdle

InitSignals == SigInit /\ NoStartup /\ NoFork /\ NoHooks

SpecSignals == InitSignals /\ [][SigNext]_vars

\* the Go scheduler runs the outer goroutine whenever its channel receive can
\* proceed; nothing is assumed of the shutdown goroutine or of e.Stop
FairSpecSignals ==
    SpecSignals /\ WF_vars(HandlerFirstSignal) /\ WF_vars(HandlerSecondSignal)

\* one call of startOrderServers or of startJobs, for every configuration
InitStartup == SigInit /\ StartInit /\ NoFork /\ NoHooks

SpecStartup == InitStartup /\ [][StartNext]_vars

\* one call of startServers, of startReloadServers or of startOrderServers: the
\* three functions that submit run units to the supervisor group
RunUnitsInit ==
    \/ StartInit /\ entry = "startOrderServers"
    \/ ServersInit
InitRunUnits == SigInit /\ RunUnitsInit /\ NoFork /\ NoHooks

SpecRunUnits == InitRunUnits /\ [][RunUnitsNext]_vars

\* one call of forkChild, for every argument list and every list of listeners
InitFork == SigInit /\ NoStartup /\ ForkInit /\ NoHooks

SpecFork == InitFork /\ [][ForkNext]_vars

\* one call of either hook runner, for every length of the list
InitHooks == SigInit /\ NoStartup /\ NoFork /\ HooksInit

SpecHooks == InitHooks /\ [][HooksNext]_vars

(***************************************************************************)
(* Claims about waitSignals                                                *)
(***************************************************************************)
\* a second signal sits in the channel: behind the first one, which the outer
\* goroutine has not taken yet, or alone after it has
SecondSignalDelivered ==
    /\ ~exited
    /\ \/ pcH = "recv1" /\ Len(sigq) >= 2
       \/ pcH = "recv2" /\ Len(sigq) >= 1

\* C1: once a second signal has been delivered to the channel while the relay
\* is still installed, the process exits with status 128 + the number held in
\* s, at whatever point the shutdown goroutine stands and even if it or e.Stop
\* never takes another step (the specification gives them no fairness).
C1_SecondSignalExits ==
    SecondSignalDelivered ~> (exited /\ exitCode = 128 + s)

\* the forced exit happened while e.Stop had been called and had not returned
C1_Witness ==
    exited /\ exitCode = 128 + s /\ pcS = "inStop" /\ sent >= 2

\* C10: e.Stop is called once, with graceful = (first signal is not SIGQUIT)
\* and reload = (first signal is ReloadSignal); e.stopInfo carries the same two
\* flags, is assigned at most once and never changes after it was assigned.
C10_StopFlags ==
    /\ [](/\ Len(stopCalls) <= 1
          /\ stopInfoWrites <= 1
          /\ stopInfo.set <=> stopInfoWrites = 1
          /\ stopInfo.set =>
                /\ s \in NotifySet
                /\ stopInfo.isGracefulStop = (s # SIGQUIT)
                /\ stopInfo.isReload = (s = ReloadSignal)
          /\ stopCalls # <<>> =>
                /\ stopCalls[1].graceful = (s # SIGQUIT)
                /\ stopCalls[1].reload = (s = ReloadSignal)
                /\ stopInfo.set
                /\ stopInfo.isGracefulStop = stopCalls[1].graceful
                /\ stopInfo.isReload = stopCalls[1].reload)
    /\ [][stopInfo.set => stopInfo' = stopInfo]_vars

\* e.Stop was called for an immediate quit, after time had passed
C10_Witness ==
    /\ s = SIGQUIT
    /\ Len(stopCalls) = 1
    /\ ~stopCalls[1].graceful
    /\ ~stopCalls[1].reload
    /\ stopInfo.set
    /\ clock > stopInfo.stopStartTime

\* C11 (as stated): a stop-timeout error is recorded only when e.Stop had not
\* finished by the time the stop timeout expired; a Stop that finished in time
\* leaves no stop-timeout error behind.
C11_TimeoutOnlyWhenLate ==
    timeoutLogged => ~stopInTime

\* C14 (as stated): once the stop timeout has expired while e.Stop is still
\* running, the shutdown goroutine can observe the expiry and record it without
\* waiting for e.Stop to return.
C14_ExpiryObservedDuringStop ==
    (pcS = "inStop" /\ stopCtx.err = "DeadlineExceeded" /\ ~exited)
        => ENABLED StopWaitDone

\* C18: a forced termination exits with 128 plus the number of the first signal
\* the handler received, whatever the second signal was.
C18_ExitStatusOfFirstSignal ==
    exited => /\ Len(received) = 2
              /\ exitCode = 128 + received[1]

\* the process was forced to exit by a second signal different from the first
C18_Witness ==
    /\ exited
    /\ Len(received) = 2
    /\ received[1] # received[2]
    /\ exitCode = 128 + received[1]

(***************************************************************************)
(* Claims about startOrderServers and startJobs                            *)
(***************************************************************************)
\* startOrderServers has touched ordered server i after its Prepare
Initialized(i) == initRes[i] # "none"
Submitted(i) == opc[i] # "none"
\* the calling goroutine stands inside the loop over the ordered servers
InOrderedStartup ==
    pcM \in {"orderLoop", "prepare", "checkJobs", "init", "submit", "retry",
             "health", "checkHealth"}
\* startJobs was called, has started its jobs and has returned
JobsRan ==
    /\ pcM = "returned"
    /\ \/ entry = "startJobs"
       \/ entry = "startOrderServers" /\ nJobs > 0 /\ nOrd > 0

\* C2: Init is invoked on the ordered servers in list order, and server n+1 is
\* neither initialized nor submitted to the supervisor group before the Health
\* of server n has returned true; a server is submitted only after its Init.
C2_HealthGatesNext ==
    /\ \A k \in 1..Len(initOrder) : initOrder[k] = k
    /\ \A i \in Orders :
         /\ Submitted(i) => Initialized(i)
         /\ (i > 1 /\ (Initialized(i) \/ Submitted(i) \/ prepRes[i] # "none"))
               => healthyOnce[i - 1]

\* the second server is being started, the first one having been probed
C2_Witness ==
    /\ nOrd = 2
    /\ initOrder = <<1, 2>>
    /\ opc[2] = "running"
    /\ healthyOnce[1]
    /\ ~healthyOnce[2]

\* C3: with a job configured, startOrderServers initializes, submits and
\* registers no ordered server, and while any job's goroutine exists the
\* caller is not inside the ordered startup loop.
C3_JobModeSkipsOrdered ==
    (entry = "startOrderServers" /\ nJobs > 0) =>
        /\ \A i \in Orders :
             /\ ~Initialized(i)
             /\ ~Submitted(i)
             /\ regRes[i] = "none"
             /\ startRes[i] = "none"
             /\ ~polled[i]
        /\ (\E j \in Jobs : jpc[j] # "idle") => ~InOrderedStartup

\* the jobs have run beside two configured ordered servers
C3_Witness ==
    /\ entry = "startOrderServers"
    /\ nJobs = 2
    /\ nOrd = 2
    /\ pcM = "returned"
    /\ prepRes[1] # "none"
    /\ \A j \in 1..nJobs : jpc[j] = "done"

\* C4: without jobs, when startOrderServers has returned and server k was
\* reached but its Health never returned true, the result is stop-requested
\* with the error fmt.Errorf builds from k's name, which is the error of no
\* other configured server, and no later server was prepared, initialized,
\* submitted or probed.
C4_UnhealthyServerStops ==
    (entry = "startOrderServers" /\ nJobs = 0 /\ pcM = "returned") =>
        \A k \in 1..nOrd :
            (prepRes[k] # "none" /\ ~healthyOnce[k]) =>
                /\ retErr # NilError
                /\ retErr.kind = "errorString"
                /\ retErr.msg = Sprintf(<<"start order server fail,err:  ">> \o Name(k))
                /\ \A i \in 1..nOrd :
                     i # k => retErr.msg # Sprintf(<<"start order server fail,err:  ">> \o Name(i))
                /\ isNeedStop
                /\ polled[k] => Initialized(k) /\ Submitted(k)
                /\ \A i \in Orders :
                     i > k => /\ prepRes[i] = "none"
                              /\ ~Initialized(i)
                              /\ ~Submitted(i)
                              /\ ~polled[i]

\* the second of two servers was probed and gave up on
C4_Witness ==
    /\ entry = "startOrderServers"
    /\ nJobs = 0
    /\ nOrd = 2
    /\ pcM = "returned"
    /\ healthyOnce[1]
    /\ polled[2]
    /\ ~healthyOnce[2]
    /\ isNeedStop

\* C5: with jobs and at least one ordered server, stop-requested is reported
\* exactly when startOrderServers returns, which is after every job's Start
\* has returned and its goroutine has finished, whatever the jobs returned;
\* the error returned is the errgroup's.
C5_StopAfterJobs ==
    (entry = "startOrderServers" /\ nJobs > 0 /\ nOrd > 0) =>
        /\ isNeedStop <=> pcM = "returned"
        /\ isNeedStop =>
             /\ \A j \in 1..nJobs : jpc[j] = "done" /\ jres[j] # "none"
             /\ retErr = egErr

\* stop is requested after one job failed and the other succeeded
C5_Witness ==
    /\ entry = "startOrderServers"
    /\ nOrd > 0
    /\ nJobs = 2
    /\ isNeedStop
    /\ jres[1] = "err"
    /\ jres[2] = "ok"
    /\ retErr = JobError(1)

\* C6 (as stated): whenever a job is configured, startOrderServers has run
\* every job and requests a stop when it returns, whatever the number of
\* ordered servers.
C6_JobsRunForAnyList ==
    (entry = "startOrderServers" /\ nJobs > 0 /\ pcM = "returned") =>
        /\ isNeedStop
        /\ \A j \in 1..nJobs : jpc[j] = "done"

\* C7 (as stated): the error startJobs returns is that of the job whose
\* Start returned an error first.
C7_FirstFailureInTime ==
    (JobsRan /\ failOrder # <<>>) => retErr = JobError(Head(failOrder))

\* C7 (amended): startJobs starts every job before it waits and returns only
\* after every job's Start has returned; it returns nil exactly when every job
\* returned nil, and otherwise the error of one failing job, the one recorded
\* first in the errgroup's slot, which no later error replaces.
C7_JobsAggregate ==
    /\ [](/\ pcM = "jobsWait" => \A j \in 1..nJobs : jpc[j] # "idle"
          /\ \A j \in Jobs : j > nJobs => jpc[j] = "idle"
          /\ egErr # NilError =>
                \E j \in 1..nJobs : jpc[j] = "done" /\ jres[j] = "err" /\ egErr = JobError(j)
          /\ JobsRan =>
                /\ \A j \in 1..nJobs : jpc[j] = "done" /\ jres[j] # "none"
                /\ retErr = egErr
                /\ retErr = NilError <=> \A j \in 1..nJobs : jres[j] = "ok"
                /\ retErr # NilError =>
                      \E j \in 1..nJobs : jres[j] = "err" /\ retErr = JobError(j))
    /\ [][egErr # NilError => egErr' = egErr]_vars

\* two jobs failed, and the error returned is that of the one that failed later
C7_Witness ==
    /\ JobsRan
    /\ entry = "startJobs"
    /\ failOrder = <<1, 2>>
    /\ retErr = JobError(2)

(***************************************************************************)
(* Claims about forkChild                                                  *)
(***************************************************************************)
DigitValue(c) == CHOOSE d \in 0..9 : DigitChar[d + 1] = c
IsNumber(str) ==
    /\ str # <<>>
    /\ \A k \in 1..Len(str) : \E d \in 0..9 : DigitChar[d + 1] = str[k]

RECURSIVE Atoi(_)
\* the number a sequence of decimal digits denotes
Atoi(str) ==
    IF Len(str) = 1 THEN DigitValue(str[1])
    ELSE 10 * Atoi(SubSeq(str, 1, Len(str) - 1)) + DigitValue(str[Len(str)])

\* occurrences of word w in the argument list a
Count(a, w) == Cardinality({k \in 1..Len(a) : a[k] = w})

\* C8: in the command forkChild builds and launches, LISTEN_FDS is a decimal
\* number equal to the number of names joined into LISTEN_FDNAMES, to the
\* number of extra files and to the number of reload listeners; the names and
\* the files are those of the listeners in list order, and FORK_CHILD is "1".
C8_HandOffCounts ==
    /\ cmd.built =>
         /\ IsNumber(cmd.env["LISTEN_FDS"])
         /\ Atoi(cmd.env["LISTEN_FDS"]) = Len(fnames)
         /\ Len(fnames) = Len(cmd.extraFiles)
         /\ Len(cmd.extraFiles) = Len(reloadServers)
         /\ \A k \in 1..Len(reloadServers) :
              /\ fnames[k] = reloadServers[k].name
              /\ cmd.extraFiles[k] = [listener |-> k, name |-> reloadServers[k].name]
         /\ cmd.env["LISTEN_FDNAMES"] =
                Join([k \in 1..Len(reloadServers) |-> reloadServers[k].name], ":")
         /\ cmd.env["FORK_CHILD"] = <<"1">>
         /\ cmd.env = env
    /\ child.built => child = cmd

\* a child was launched with the descriptors of two differently named listeners
C8_Witness ==
    /\ child.built
    /\ forkRet.pid = ChildPid
    /\ Len(reloadServers) = 2
    /\ reloadServers[1].name # reloadServers[2].name
    /\ child.env["LISTEN_FDS"] = <<"2">>

\* C9: the command's arguments are the program path followed by the parent's
\* arguments in their order, with "-r" appended at the end exactly when the
\* parent's arguments do not hold it; "-r" is not added to a list that holds
\* it, and the rule applied to its own result changes nothing.
C9_ChildArguments ==
    cmd.built =>
        LET parent == Tail(osArgs)
            given == Tail(cmd.args)
        IN  /\ cmd.path = osArgs[1]
            /\ Head(cmd.args) = osArgs[1]
            /\ given = IF \E k \in 1..Len(parent) : parent[k] = "-r"
                       THEN parent
                       ELSE parent \o <<"-r">>
            /\ Count(given, "-r") = IF Count(parent, "-r") = 0 THEN 1 ELSE Count(parent, "-r")
            /\ WithReloadFlag(given) = given
            /\ child.built => child.args = cmd.args

\* the parent already carried "-r", before another argument
C9_Witness ==
    /\ child.built
    /\ osArgs = <<ProgramPath, "-r", "--config=config.toml">>
    /\ child.args = osArgs

\* a reload server whose descriptor cannot be extracted
BadListener(ln) == ln.kind \in {"tcpNoFile", "other"}

\* C15: when the descriptor of some reload server cannot be extracted, forkChild
\* panics at that listener: no command is built, no child is started, nothing is
\* returned, and none of LISTEN_FDS, LISTEN_FDNAMES, FORK_CHILD has been set.
C15_NoPartialHandOff ==
    (\E k \in 1..Len(reloadServers) : BadListener(reloadServers[k]))
        => /\ published = {}
           /\ ~cmd.built
           /\ ~child.built
           /\ forkRet = NoResult
           /\ pcF \in {"idle", "listeners", "panicked"}
           /\ li <= Len(reloadServers)
           /\ \A k \in 1..(li - 1) : ~BadListener(reloadServers[k])

\* forkChild panicked at a bad listener after it had extracted an earlier one
C15_Witness ==
    /\ Len(reloadServers) = 2
    /\ pcF = "panicked"
    /\ li = 2
    /\ Len(extraFiles) = 1
    /\ BadListener(reloadServers[2])
    /\ published = {}


(***************************************************************************)
(* Claims about the run units                                              *)
(***************************************************************************)
\* the calls a run unit makes from its submission to its end: Init belongs to
\* the unit for plain and reload servers, to the caller for ordered servers
UnitCalls ==
    (IF entry \in {"startServers", "startReloadServers"} THEN <<"Init">> ELSE <<>>)
        \o <<"RegisterService", "Start", "StartReturned", "UnregisterService">>
IsPrefix(a, b) == Len(a) <= Len(b) /\ a = SubSeq(b, 1, Len(a))
\* every ordered server of the list has reported ready
AllHealthy == \A k \in 1..nOrd : healthyOnce[k]

\* C12: the run unit of every plain, reload and ordered server calls
\* RegisterService once, then Start, and UnregisterService once after Start has
\* returned, for either result of RegisterService and of Start; it never
\* unregisters while Start is running, and it does not end without unregistering.
C12_RegisterAroundStart ==
    \A i \in Orders :
        /\ IsPrefix(ulog[i], UnitCalls)
        /\ opc[i] = "running" => ulog[i][Len(ulog[i])] = "Start"
        /\ startRes[i] # "none" => opc[i] \in {"unregister", "done"}
        /\ opc[i] = "done" => ulog[i] = UnitCalls

\* a reload server whose registration failed and whose Start failed has been
\* unregistered, while the next one is still serving
C12_Witness ==
    /\ entry = "startReloadServers"
    /\ nSrv = 2
    /\ opc[1] = "done"
    /\ regRes[1] = "err"
    /\ startRes[1] = "err"
    /\ opc[2] = "running"
    /\ regRes[2] = "ok"

\* C16: a run unit whose RegisterService failed goes on to call Start, and the
\* ordered startup advances past a server exactly when its Health reported
\* ready and returns nil exactly when all did, whatever RegisterService returned.
C16_RegisterFailureNotFatal ==
    /\ \A i \in Orders :
         regRes[i] = "err" =>
            /\ opc[i] \in {"start", "running", "unregister", "done"}
            /\ opc[i] \in {"unregister", "done"} => startRes[i] # "none"
    /\ (entry = "startOrderServers" /\ nJobs = 0) =>
         /\ \A i \in 1..nOrd :
              /\ idx > i => healthyOnce[i]
              /\ (healthyOnce[i] /\ idx = i) => pcM = "checkHealth"
         /\ pcM = "returned" => (retErr = NilError <=> AllHealthy)

\* the first ordered server failed to register, reported ready all the same,
\* and the second one has been initialized
C16_Witness ==
    /\ entry = "startOrderServers"
    /\ nOrd = 2
    /\ regRes[1] = "err"
    /\ opc[1] = "running"
    /\ healthyOnce[1]
    /\ idx = 2
    /\ Initialized(2)

\* C19: a server whose Init failed is registered and started all the same, an
\* ordered server whose Prepare failed is initialized all the same, and
\* startOrderServers returns an error or requests a stop only for a server
\* that did not report ready or because jobs were run.
C19_PrepareInitIgnored ==
    /\ \A i \in Orders :
         /\ initRes[i] = "err" =>
              \/ opc[i] \in {"register", "start", "running", "unregister", "done"}
              \/ entry = "startOrderServers" /\ pcM = "submit" /\ idx = i
         /\ (initRes[i] = "err" /\ opc[i] = "done") =>
              regRes[i] # "none" /\ startRes[i] # "none"
         /\ (prepRes[i] = "err" /\ nJobs = 0) =>
              \/ Initialized(i)
              \/ pcM \in {"checkJobs", "init"} /\ idx = i
    /\ (entry = "startOrderServers" /\ pcM = "returned") =>
         /\ retErr # NilError =>
              \/ \E k \in 1..nOrd : Submitted(k) /\ ~healthyOnce[k]
              \/ \E j \in 1..nJobs : jres[j] = "err"
         /\ isNeedStop =>
              \/ \E k \in 1..nOrd : Submitted(k) /\ ~healthyOnce[k]
              \/ nJobs > 0

\* Prepare and Init of the only ordered server failed, the server ran to its
\* end, and startOrderServers returned nil without requesting a stop
C19_Witness ==
    /\ entry = "startOrderServers"
    /\ nOrd = 1
    /\ prepRes[1] = "err"
    /\ initRes[1] = "err"
    /\ opc[1] = "done"
    /\ pcM = "returned"
    /\ retErr = NilError
    /\ ~isNeedStop

\* C20: startOrderServers returns an error only together with a stop request,
\* and it returns without a stop request exactly when it returns nil with
\* every ordered server initialized, submitted and healthy and no job started.
C20_ResultsConsistent ==
    (entry = "startOrderServers" /\ pcM = "returned") =>
        /\ retErr # NilError => isNeedStop
        /\ ~isNeedStop <=>
              /\ retErr = NilError
              /\ \A i \in 1..nOrd : Initialized(i) /\ Submitted(i) /\ healthyOnce[i]
              /\ \A j \in Jobs : jpc[j] = "idle"

\* startOrderServers gave up on the second of two servers
C20_Witness ==
    /\ entry = "startOrderServers"
    /\ pcM = "returned"
    /\ nOrd = 2
    /\ healthyOnce[1]
    /\ Submitted(2)
    /\ ~healthyOnce[2]
    /\ retErr # NilError
    /\ isNeedStop


\* a step of the caller or of a job's goroutine
StartupStep ==
    \/ CallerStep
    \/ \E j \in Jobs : JobStartReturn(j) \/ JobDone(j)
\* the steps one pass of the loop over the ordered servers can take at most
PassSteps == 2 * MaxAttempts + 7
\* the steps startJobs can take at most from its entry
JobsCallSteps == 2 + nJobs
\* the steps the caller can take at most before it returns
CallerRank ==
    CASE pcM = "returned" -> 0
      [] pcM = "jobsWait" -> 1
      [] pcM = "jobsGo" -> 2 + nJobs - jgo
      [] pcM = "jobsEntry" -> JobsCallSteps
      [] pcM = "idle" -> JobsCallSteps + 1 + (nOrd + 1) * PassSteps
      [] OTHER ->
            JobsCallSteps + 1 + (nOrd + 1 - idx) * PassSteps
              + (CASE pcM = "orderLoop" -> PassSteps - 1
                   [] pcM = "prepare" -> PassSteps - 2
                   [] pcM = "checkJobs" -> PassSteps - 3
                   [] pcM = "init" -> PassSteps - 4
                   [] pcM = "submit" -> PassSteps - 5
                   [] pcM = "health" -> 2 * (MaxAttempts - attempts) + 2
                   [] pcM = "retry" -> 2 * (MaxAttempts - attempts) + 1
                   [] OTHER -> 0)
\* the steps the goroutines of the jobs can take at most
RECURSIVE JobRank(_)
JobRank(n) ==
    IF n = 0 THEN 0
    ELSE JobRank(n - 1) + (CASE jpc[n] = "done" -> 0
                             [] jpc[n] = "returned" -> 1
                             [] OTHER -> 2)
Rank == CallerRank + JobRank(nJobs)

\* C17: the polling of an ordered server ends with the first probe that reports
\* ready or with the retry policy's refusal, after at most MaxAttempts probes,
\* and a server that has reported ready is not polled again; every call of
\* startOrderServers returns: each step of the caller and of the jobs brings
\* the return nearer by a bounded measure, and until the return such a step is
\* possible.
C17_PollingEnds ==
    /\ [](/\ attempts <= MaxAttempts
          /\ \A i \in 1..nOrd :
               healthyOnce[i] => ~(idx = i /\ pcM \in {"retry", "health"})
          /\ pcM = "checkHealth" => (isHealth <=> healthyOnce[idx]))
    /\ [](Rank >= 0)
    /\ [][(pcM' # pcM \/ jgo' # jgo \/ jpc' # jpc) => Rank' < Rank]_vars
    /\ [](pcM # "returned" => ENABLED StartupStep)

\* the first server reported ready at its second probe and the second server
\* was given up after the last probe the retry policy allows
C17_Witness ==
    /\ entry = "startOrderServers"
    /\ nOrd = 2
    /\ healthyOnce[1]
    /\ polled[2]
    /\ ~healthyOnce[2]
    /\ pcM = "returned"
    /\ retErr # NilError


(***************************************************************************)
(* Claims about the hook runners                                           *)
(***************************************************************************)
\* the errors of the hooks 1..n that failed, in list order
RECURSIVE FailedUpTo(_)
FailedUpTo(n) ==
    IF n = 0 THEN <<>>
    ELSE FailedUpTo(n - 1) \o (IF hres[n] = "err" THEN <<HookError(n)>> ELSE <<>>)

\* C13: both runners invoke the hooks in list order, each at most once;
\* runSerialFuncReturnError stops at the first hook that fails, returns its
\* error and invokes no later hook, and returns nil only when every hook
\* succeeded; runSerialFuncLogError invokes every hook once whatever the
\* earlier hooks returned, logging each failure.
C13_HookPolicies ==
    /\ \A k \in 1..Len(hcalls) : hcalls[k] = k
    /\ Len(hcalls) <= nHooks
    /\ runner = "runSerialFuncReturnError" =>
         /\ \A i \in Hooks :
              hres[i] = "err" =>
                 /\ pcK = "returned"
                 /\ hret = HookError(i)
                 /\ Len(hcalls) = i
         /\ pcK = "returned" =>
              (hret = NilError <=>
                  /\ Len(hcalls) = nHooks
                  /\ \A i \in 1..nHooks : hres[i] = "ok")
         /\ hlog = <<>>
    /\ runner = "runSerialFuncLogError" =>
         /\ pcK = "returned" =>
              /\ Len(hcalls) = nHooks
              /\ \A i \in 1..nHooks : hres[i] # "none"
         /\ pcK # "returned" => Len(hcalls) = IF pcK = "inHook" THEN hi ELSE hi - 1
         /\ hlog = FailedUpTo(Len(hcalls))
         /\ hret = NilError

\* the after-stop runner has run three hooks to the end although the first
\* and the second failed
C13_Witness ==
    /\ runner = "runSerialFuncLogError"
    /\ nHooks = 3
    /\ pcK = "returned"
    /\ hres[1] = "err"
    /\ hres[2] = "err"
    /\ hres[3] = "ok"
    /\ hcalls = <<1, 2, 3>>
    /\ Len(hlog) = 2

====
